---- MODULE Spec2Model ----
(***************************************************************************)
(* Model of package profile (github.com/pkg/profile): the options that     *)
(* configure a Profile, Start, Profile.Stop and the interrupt watcher      *)
(* goroutine that Start spawns.                                            *)
(*                                                                         *)
(* Threads of control: the application (one goroutine calling Start and    *)
(* Stop) and one watcher goroutine per session started with the shutdown   *)
(* hook.  Every atomic operation of the code (the two CompareAndSwap, the  *)
(* Store, each statement of a closer) is one step, so every interleaving   *)
(* of the application, the watchers and interrupt deliveries is explored.  *)
(***************************************************************************)
EXTENDS Integers, Sequences, FiniteSets, TLC

\* ------------------------------------------------------------- bounds
\* Sessions started successfully in one run of the process.
MaxSessions == 2
\* Length of the option sequences of the resolver specification.
MaxOptions == 3

\* ---------------------------------------------------------- constants
cpuMode == 0
memMode == 1
blockMode == 2
traceMode == 3
DefaultMemProfileRate == 4096

Modes == {cpuMode, memMode, blockMode, traceMode}

\* Rates given to MemProfileRate.
RateInputs == {0, 1, 2}
\* runtime.MemProfileRate before any session: the runtime's default
\* (512 * 1024), and the rates the sampling-rate specification starts from.
DefaultRates == {524288}
InitialRates == {0, 524288}
\* Paths given to ProfilePath ("" selects a temporary directory).
PathInputs == {"", "out", "out/sub"}

\* An option is a tuple: its constructor's name, then its argument if any.
Options ==
    {<<"NoShutdownHook">>, <<"Quiet">>, <<"CPUProfile">>, <<"MemProfile">>,
     <<"BlockProfile">>, <<"TraceProfile">>}
    \cup {<<"MemProfileRate", r>> : r \in RateInputs}
    \cup {<<"ProfilePath", p>> : p \in PathInputs}

RECURSIVE SeqsUpTo(_, _)
SeqsUpTo(S, n) ==
    IF n = 0 THEN {<<>>}
    ELSE LET shorter == SeqsUpTo(S, n - 1)
         IN  shorter \cup {Append(q, x) : q \in {r \in shorter : Len(r) = n - 1}, x \in S}

\* The option sequences Start is called with in the lifecycle specification.
StartInputs ==
    {<<>>,
     <<<<"Quiet">>>>,
     <<<<"MemProfileRate", 1>>>>,
     <<<<"NoShutdownHook">>, <<"BlockProfile">>, <<"ProfilePath", "out">>>>,
     <<<<"TraceProfile">>, <<"ProfilePath", "out/sub">>>>}

\* The option sequences of the sampling-rate specification.
RateStartInputs ==
    {<<<<"NoShutdownHook">>>>,
     <<<<"NoShutdownHook">>, <<"MemProfile">>>>,
     <<<<"MemProfileRate", 1>>>>,
     <<<<"NoShutdownHook">>, <<"MemProfileRate", 2>>, <<"Quiet">>>>,
     <<<<"NoShutdownHook">>, <<"BlockProfile">>>>}

VARIABLES
    started,          \* var started uint32
    profs,            \* the Profile values created by Start, in order
    closers,          \* per session: what its closer closes over, its progress
    watchers,         \* per session: the watcher goroutine and its channel
    app,              \* the application goroutine
    runtimeMemProfileRate,   \* runtime.MemProfileRate
    runtimeBlockProfileRate, \* the rate set by runtime.SetBlockProfileRate
    cpuProfiling,     \* pprof: a CPU profile is being written
    tracing,          \* trace: an execution trace is being written
    dirs,             \* directories of the file system
    files,            \* artifact files: name -> [open, data]
    stderr,           \* what package log has written
    exit,             \* "running", or how the process ended
    hit,              \* sessions interrupted while active, not yet torn down
    resolver          \* the option loop of the resolver specification

vars == <<started, profs, closers, watchers, app, runtimeMemProfileRate,
          runtimeBlockProfileRate, cpuProfiling, tracing, dirs, files, stderr,
          exit, hit, resolver>>

\* Mutant: the shutdown hook is off by default.
ZeroProfileNoHook ==
    [quiet |-> FALSE, noShutdownHook |-> TRUE, mode |-> cpuMode, path |-> "",
     memProfileRate |-> 0, stopped |-> 0]

\* ------------------------------------------------------------ options
\* var prof Profile: the zero value.
ZeroProfile ==
    [quiet |-> FALSE, noShutdownHook |-> FALSE, mode |-> cpuMode, path |-> "",
     memProfileRate |-> 0, stopped |-> 0]

NoShutdownHook(p) == [p EXCEPT !.noShutdownHook = TRUE]

Quiet(p) == [p EXCEPT !.quiet = TRUE]

CPUProfile(p) == [p EXCEPT !.mode = cpuMode]

\* Mutant: MemProfile keeps a rate that was given before.
MemProfileKeepsRate(p) ==
    IF p.memProfileRate = 0
    THEN [p EXCEPT !.memProfileRate = DefaultMemProfileRate, !.mode = memMode]
    ELSE [p EXCEPT !.mode = memMode]

MemProfile(p) == [p EXCEPT !.memProfileRate = DefaultMemProfileRate, !.mode = memMode]

MemProfileRate(rate, p) == [p EXCEPT !.memProfileRate = rate, !.mode = memMode]

\* Mutant: BlockProfile leaves a mode that was selected before.
BlockProfileAdditive(p) == IF p.mode = cpuMode THEN [p EXCEPT !.mode = blockMode] ELSE p

BlockProfile(p) == [p EXCEPT !.mode = blockMode]

TraceProfile(p) == [p EXCEPT !.mode = traceMode]

ProfilePath(path, p) == [p EXCEPT !.path = path]

\* option(&prof): one call of an option function.
ApplyOption(o, p) ==
    CASE o[1] = "NoShutdownHook" -> NoShutdownHook(p)
      [] o[1] = "Quiet"          -> Quiet(p)
      [] o[1] = "CPUProfile"     -> CPUProfile(p)
      [] o[1] = "MemProfile"     -> MemProfile(p)
      [] o[1] = "MemProfileRate" -> MemProfileRate(o[2], p)
      [] o[1] = "BlockProfile"   -> BlockProfile(p)
      [] o[1] = "TraceProfile"   -> TraceProfile(p)
      [] o[1] = "ProfilePath"    -> ProfilePath(o[2], p)

\* for _, option := range options { option(&prof) }
RECURSIVE ApplyOptions(_, _)
ApplyOptions(options, p) ==
    IF options = <<>> THEN p
    ELSE ApplyOptions(Tail(options), ApplyOption(Head(options), p))

\* --------------------------------------------------------- file system
\* A directory is <<name, n>>: n = 0 for a path the caller gave, n >= 1 for
\* the unique suffix ioutil.TempDir appends to its "profile" prefix.
UserDir(path) == <<path, 0>>

\* os.MkdirAll creates the path and every missing parent.
MkdirAll(path) ==
    IF path = "out/sub" THEN {UserDir("out"), UserDir("out/sub")} ELSE {UserDir(path)}

\* ioutil.TempDir("", "profile"): a directory that does not exist yet.
TempDir == <<"profile", CHOOSE n \in 1..(Cardinality(dirs) + 1) : <<"profile", n>> \notin dirs>>

\* Mutant: the temporary directory is used whatever the path.
resolvePathTemp(p) == TempDir

\* The directory the artifact goes to (lines 127-132).
resolvePath(p) == IF p # "" THEN UserDir(p) ELSE TempDir

\* The directories that exist after the path has been resolved.
resolveDirs(p) == IF p # "" THEN dirs \cup MkdirAll(p) ELSE dirs \cup {TempDir}

\* Mutant: every artifact takes the .pprof extension.
ArtifactPprof(mode) ==
    CASE mode = cpuMode   -> "cpu.pprof"
      [] mode = memMode   -> "mem.pprof"
      [] mode = blockMode -> "block.pprof"
      [] mode = traceMode -> "trace.pprof"

\* The artifact's base name, by mode (lines 146, 160, 176, 191).
Artifact(mode) ==
    CASE mode = cpuMode   -> "cpu.pprof"
      [] mode = memMode   -> "mem.pprof"
      [] mode = blockMode -> "block.pprof"
      [] mode = traceMode -> "trace.out"

\* filepath.Join(path, name)
Join(dir, name) == <<dir, name>>

\* os.Create: the file exists, is empty and is open.
Create(fn) == [f \in DOMAIN files \cup {fn} |->
                 IF f = fn THEN [open |-> TRUE, data |-> "empty", late |-> FALSE]
                 ELSE files[f]]

\* A write to file fn: it fails on a closed file, and may fail on an open one.
WriteFile(fs, fn, ok) ==
    [fs EXCEPT ![fn] = IF ~@.open THEN [@ EXCEPT !.late = TRUE]
                          ELSE IF ok THEN [@ EXCEPT !.data = "written"]
                          ELSE [@ EXCEPT !.data = "failed"]]

CloseFile(fs, fn) == [fs EXCEPT ![fn].open = FALSE]

\* ---------------------------------------------------------------- log
\* logf: log.Printf unless prof.quiet (lines 138-142).
logf(out, p, msg, s) == IF ~p.quiet THEN out \cup {<<"info", msg, s>>} ELSE out

\* log.Fatal, log.Fatalf and log.Println write whatever prof.quiet is.
logAlways(kind, msg, s) == stderr \cup {<<kind, msg, s>>}

\* ------------------------------------------------------------ threads
\* Thread 0 is the application; thread s >= 1 is the watcher of session s.
Sessions == 1..Len(profs)

Threads == {0} \cup Sessions

ThreadPc(t) == IF t = 0 THEN app.pc ELSE watchers[t].pc

\* The session whose Stop thread t executes.
ThreadSession(t) == IF t = 0 THEN app.s ELSE t

\* Thread t goes on inside Stop on session s, at pc.  A watcher inside Stop
\* has taken the signal from its channel and has unsubscribed.
Goto(t, s, pc) ==
    IF t = 0
    THEN /\ app' = [pc |-> pc, s |-> s, last |-> "none"]
         /\ UNCHANGED watchers
    ELSE /\ watchers' = [watchers EXCEPT ![t] = [@ EXCEPT !.pc = pc, !.sig = FALSE,
                                                            !.reg = FALSE, !.won = TRUE]]
         /\ UNCHANGED app

\* Mutant: the watcher receives in a loop and stays subscribed.
ReturnRearms(t, s, won) ==
    IF t = 0
    THEN /\ app' = [pc |-> "idle", s |-> s, last |-> IF won THEN "Stop" ELSE "Noop"]
         /\ UNCHANGED watchers
    ELSE /\ watchers' = [watchers EXCEPT ![t] = [@ EXCEPT !.pc = "waiting", !.sig = FALSE,
                                                            !.reg = TRUE, !.won = won]]
         /\ UNCHANGED app

\* Stop returns to thread t, having run the closer (won) or not: the
\* application is idle again, the watcher goes on to os.Exit(0).
Return(t, s, won) ==
    IF t = 0
    THEN /\ app' = [pc |-> "idle", s |-> s, last |-> IF won THEN "Stop" ELSE "Noop"]
         /\ UNCHANGED watchers
    ELSE /\ watchers' = [watchers EXCEPT ![t] = [@ EXCEPT !.pc = "exit", !.sig = FALSE,
                                                            !.reg = FALSE, !.won = won]]
         /\ UNCHANGED app

\* A session is active from the activation of its capability in Start
\* until its closer has run to its end.
Active(s) == s \in Sessions /\ closers[s].done = 0

\* Mutant: Stop does not look at p.stopped.
StoppedCASIgnored(p) == TRUE

\* --------------------------------------------------------------- Stop
\* atomic.CompareAndSwapUint32(&p.stopped, 0, 1) succeeds (line 101).
StoppedCAS(p) == p.stopped = 0

\* Mutant: the closers close the artifact first.
CloserStepsCloseFirst(mode) ==
    CASE mode = cpuMode   -> <<"Close", "StopCPUProfile", "logf">>
      [] mode = memMode   -> <<"Close", "WriteTo", "MemProfileRate = old", "logf">>
      [] mode = blockMode -> <<"Close", "WriteTo", "SetBlockProfileRate(0)", "logf">>
      [] mode = traceMode -> <<"stopTrace", "logf">>

\* Mutant: the heap closer does not restore the rate.
CloserStepsNoRestore(mode) ==
    CASE mode = cpuMode   -> <<"StopCPUProfile", "Close", "logf">>
      [] mode = memMode   -> <<"WriteTo", "Close", "logf">>
      [] mode = blockMode -> <<"WriteTo", "Close", "SetBlockProfileRate(0)", "logf">>
      [] mode = traceMode -> <<"stopTrace", "logf">>

\* The statements of prof.closer, by mode (lines 153-157, 168-173, 183-188,
\* 200-203).
CloserSteps(mode) ==
    CASE mode = cpuMode   -> <<"StopCPUProfile", "Close", "logf">>
      [] mode = memMode   -> <<"WriteTo", "Close", "MemProfileRate = old", "logf">>
      [] mode = blockMode -> <<"WriteTo", "Close", "SetBlockProfileRate(0)", "logf">>
      [] mode = traceMode -> <<"stopTrace", "logf">>

DisabledMessage(mode) ==
    CASE mode = cpuMode   -> "cpu profiling disabled"
      [] mode = memMode   -> "memory profiling disabled"
      [] mode = blockMode -> "block profiling disabled"
      [] mode = traceMode -> "trace disabled"

\* What a closer reads and writes.
World ==
    [cpuProfiling |-> cpuProfiling, tracing |-> tracing, files |-> files,
     memRate |-> runtimeMemProfileRate, blockRate |-> runtimeBlockProfileRate,
     stderr |-> stderr, events |-> <<>>]

\* Mutant: the contention closer puts back the rate found at Start.
CloserStatementRestoresBlock(step, w, s, ok) ==
    LET p == profs[s]
        c == closers[s]
    IN  CASE step = "StopCPUProfile" ->
               [w EXCEPT !.cpuProfiling = FALSE, !.files = WriteFile(w.files, c.fn, TRUE)]
          [] step = "stopTrace" ->
               [w EXCEPT !.tracing = FALSE, !.files = WriteFile(w.files, c.fn, TRUE)]
          [] step = "WriteTo" -> [w EXCEPT !.files = WriteFile(w.files, c.fn, ok)]
          [] step = "Close" -> [w EXCEPT !.files = CloseFile(w.files, c.fn)]
          [] step = "MemProfileRate = old" -> [w EXCEPT !.memRate = c.old]
          [] step = "SetBlockProfileRate(0)" -> [w EXCEPT !.blockRate = c.blockBefore]
          [] step = "logf" ->
               [w EXCEPT !.stderr = logf(w.stderr, p, DisabledMessage(p.mode), s)]

\* One statement of the closer of session s, on world w; ok: the snapshot
\* write succeeds.
CloserStatement(step, w, s, ok) ==
    LET p == profs[s]
        c == closers[s]
    IN  CASE step = "StopCPUProfile" ->
               [w EXCEPT !.cpuProfiling = FALSE, !.files = WriteFile(w.files, c.fn, TRUE)]
          [] step = "stopTrace" ->
               [w EXCEPT !.tracing = FALSE, !.files = WriteFile(w.files, c.fn, TRUE)]
          [] step = "WriteTo" -> [w EXCEPT !.files = WriteFile(w.files, c.fn, ok)]
          [] step = "Close" -> [w EXCEPT !.files = CloseFile(w.files, c.fn)]
          [] step = "MemProfileRate = old" -> [w EXCEPT !.memRate = c.old]
          [] step = "SetBlockProfileRate(0)" -> [w EXCEPT !.blockRate = 0]
          [] step = "logf" ->
               [w EXCEPT !.stderr = logf(w.stderr, p, DisabledMessage(p.mode), s)]

\* The statements of a closer, in their order; events: the statements
\* executed so far, in the order of their execution.
RECURSIVE RunCloser(_, _, _, _)
RunCloser(steps, w, s, ok) ==
    IF steps = <<>> THEN w
    ELSE RunCloser(Tail(steps),
                   [CloserStatement(Head(steps), w, s, ok)
                       EXCEPT !.events = Append(w.events, Head(steps))],
                   s, ok)

\* Mutant: a Stop that finds the session stopped clears started all the same.
StopEnterUnlocks(t, s) ==
    /\ IF StoppedCAS(profs[s])
       THEN /\ profs' = [profs EXCEPT ![s].stopped = 1]
            /\ closers' = [closers EXCEPT ![s].runs = @ + 1]
            /\ Goto(t, s, "closer")
            /\ UNCHANGED started
       ELSE /\ UNCHANGED <<profs, closers>>
            /\ started' = 0
            /\ Return(t, s, FALSE)
    /\ UNCHANGED <<runtimeMemProfileRate, runtimeBlockProfileRate,
                   cpuProfiling, tracing, dirs, files, exit, hit, resolver>>

\* Stop, first step (lines 100-104): the compare-and-swap of p.stopped.  The
\* winner goes on to p.closer(); a loser returns at once.
StopEnter(t, s) ==
    /\ IF StoppedCAS(profs[s])
       THEN /\ profs' = [profs EXCEPT ![s].stopped = 1]
            /\ closers' = [closers EXCEPT ![s].runs = @ + 1]
            /\ Goto(t, s, "closer")
       ELSE /\ UNCHANGED <<profs, closers>>
            /\ Return(t, s, FALSE)
    /\ UNCHANGED <<started, runtimeMemProfileRate, runtimeBlockProfileRate,
                   cpuProfiling, tracing, dirs, files, exit, hit, resolver>>

\* The application calls Stop on a handle it holds, fresh or stale.
AppStop(h) ==
    /\ exit = "running"
    /\ app.pc = "idle"
    /\ h \in Sessions
    /\ StopEnter(0, h)
    /\ UNCHANGED stderr

\* p.closer() (line 105), run by thread t.  Its statements touch only what no
\* other thread reads while started is set, so they are one step.
StopCloser(t, ok) ==
    /\ exit = "running"
    /\ t \in Threads
    /\ ThreadPc(t) = "closer"
    /\ LET s == ThreadSession(t)
           w == RunCloser(CloserSteps(profs[s].mode), World, s, ok)
       IN  /\ cpuProfiling' = w.cpuProfiling
           /\ tracing' = w.tracing
           /\ files' = w.files
           /\ runtimeMemProfileRate' = w.memRate
           /\ runtimeBlockProfileRate' = w.blockRate
           /\ stderr' = w.stderr
           /\ closers' = [closers EXCEPT ![s].done = @ + 1, ![s].events = w.events]
           /\ hit' = hit \ {s}
           /\ Goto(t, s, "store")
    /\ UNCHANGED <<started, profs, dirs, exit, resolver>>

\* Mutant: Stop makes the handle usable again.
StopStoreResets(t) ==
    /\ exit = "running"
    /\ t \in Threads
    /\ ThreadPc(t) = "store"
    /\ started' = 0
    /\ profs' = [profs EXCEPT ![ThreadSession(t)].stopped = 0]
    /\ Return(t, ThreadSession(t), TRUE)
    /\ UNCHANGED <<closers, runtimeMemProfileRate, runtimeBlockProfileRate,
                   cpuProfiling, tracing, dirs, files, stderr, exit, hit, resolver>>

\* Mutant: Stop returns without clearing started.
StopStoreForgets(t) ==
    /\ exit = "running"
    /\ t \in Threads
    /\ ThreadPc(t) = "store"
    /\ started' = started
    /\ Return(t, ThreadSession(t), TRUE)
    /\ UNCHANGED <<profs, closers, runtimeMemProfileRate, runtimeBlockProfileRate,
                   cpuProfiling, tracing, dirs, files, stderr, exit, hit, resolver>>

\* atomic.StoreUint32(&started, 0), and Stop returns (lines 106-107).
StopStore(t) ==
    /\ exit = "running"
    /\ t \in Threads
    /\ ThreadPc(t) = "store"
    /\ started' = 0
    /\ Return(t, ThreadSession(t), TRUE)
    /\ UNCHANGED <<profs, closers, runtimeMemProfileRate, runtimeBlockProfileRate,
                   cpuProfiling, tracing, dirs, files, stderr, exit, hit, resolver>>

\* Mutant: Start does not look at started.
StartedCASIgnored == TRUE

\* -------------------------------------------------------------- Start
\* atomic.CompareAndSwapUint32(&started, 0, 1) succeeds (line 118).
StartedCAS == started = 0

\* What the environment can refuse Start: nothing, the directory, the
\* artifact file, the start of the execution trace.
Failures == {"none", "mkdir", "create", "trace"}

EnabledMessage(mode) ==
    CASE mode = cpuMode   -> "cpu profiling enabled"
      [] mode = memMode   -> "memory profiling enabled"
      [] mode = blockMode -> "block profiling enabled"
      [] mode = traceMode -> "trace enabled"

\* The watcher goroutine Start spawns unless prof.noShutdownHook (line 210).
\* at: the session started with NoShutdownHook that was active when the signal
\* the watcher holds or took was delivered (0: there was none).
NewWatcher(p) ==
    [pc |-> IF ~p.noShutdownHook THEN "spawned" ELSE "none",
     sig |-> FALSE, reg |-> FALSE, won |-> FALSE, at |-> 0]

\* Mutant: the process ends without a diagnostic.
FatalSilent(msg) ==
    /\ stderr' = stderr
    /\ exit' = "fatal"

\* Mutant: the diagnostic is logged and the process goes on.
FatalLogsOnly(msg) ==
    /\ stderr' = logAlways("fatal", msg, Len(profs) + 1)
    /\ exit' = exit

\* log.Fatal, log.Fatalf: the diagnostic, then os.Exit(1).
Fatal(msg) ==
    /\ stderr' = logAlways("fatal", msg, Len(profs) + 1)
    /\ exit' = "fatal"

\* Mutant: the diagnostics of a failed Start go through logf, which the quiet
\* option silences.
StartFatalViaLogf(options, fail) ==
    /\ exit = "running"
    /\ app.pc = "idle"
    /\ LET prof == ApplyOptions(options, ZeroProfile)
           s    == Len(profs) + 1
           path == resolvePath(prof.path)
           fn   == Join(path, Artifact(prof.mode))
       IN  /\ StartedCAS => Len(profs) < MaxSessions
           /\ fail = "trace" => prof.mode = traceMode
           /\ IF ~StartedCAS
              THEN /\ Fatal("Start() already called")
                   /\ UNCHANGED <<started, profs, closers, watchers, app,
                                  runtimeMemProfileRate, runtimeBlockProfileRate,
                                  cpuProfiling, tracing, dirs, files>>
              ELSE IF fail = "mkdir"
              THEN /\ (/\ stderr' = IF prof.quiet THEN stderr ELSE logAlways("fatal", "could not create initial output directory", s)
                       /\ exit' = "fatal")
                   /\ started' = 1
                   /\ UNCHANGED <<profs, closers, watchers, app,
                                  runtimeMemProfileRate, runtimeBlockProfileRate,
                                  cpuProfiling, tracing, dirs, files>>
              ELSE IF fail = "create"
              THEN /\ (/\ stderr' = IF prof.quiet THEN stderr ELSE logAlways("fatal", "could not create profile", s)
                       /\ exit' = "fatal")
                   /\ started' = 1
                   /\ dirs' = resolveDirs(prof.path)
                   /\ UNCHANGED <<profs, closers, watchers, app,
                                  runtimeMemProfileRate, runtimeBlockProfileRate,
                                  cpuProfiling, tracing, files>>
              ELSE IF fail = "trace"
              THEN /\ (/\ stderr' = IF prof.quiet THEN stderr ELSE logAlways("fatal", "could not start trace", s)
                       /\ exit' = "fatal")
                   /\ started' = 1
                   /\ dirs' = resolveDirs(prof.path)
                   /\ files' = Create(fn)
                   /\ UNCHANGED <<profs, closers, watchers, app,
                                  runtimeMemProfileRate, runtimeBlockProfileRate,
                                  cpuProfiling, tracing>>
              ELSE /\ started' = 1
                   /\ dirs' = resolveDirs(prof.path)
                   /\ files' = Create(fn)
                   /\ cpuProfiling' = IF prof.mode = cpuMode THEN TRUE ELSE cpuProfiling
                   /\ tracing' = IF prof.mode = traceMode THEN TRUE ELSE tracing
                   /\ runtimeMemProfileRate' =
                          IF prof.mode = memMode THEN prof.memProfileRate
                          ELSE runtimeMemProfileRate
                   /\ runtimeBlockProfileRate' =
                          IF prof.mode = blockMode THEN 1 ELSE runtimeBlockProfileRate
                   /\ stderr' = logf(stderr, prof, EnabledMessage(prof.mode), s)
                   /\ profs' = Append(profs, prof)
                   \* old is the closure's variable (line 165); the other
                   \* fields record the call for the properties: the package
                   \* never reads the contention rate (blockBefore).
                   /\ closers' = Append(closers,
                          [fn |-> fn, old |-> runtimeMemProfileRate, runs |-> 0,
                           done |-> 0, options |-> options, fresh |-> path \notin dirs,
                           events |-> <<>>, blockBefore |-> runtimeBlockProfileRate])
                   /\ watchers' = Append(watchers, NewWatcher(prof))
                   /\ app' = [pc |-> "idle", s |-> s, last |-> "Start"]
                   /\ UNCHANGED exit
    /\ UNCHANGED <<hit, resolver>>

\* Start (lines 115-227): the compare-and-swap of started, the options, the
\* output directory, the artifact and the capability of the mode, the
\* watcher, the handle.  fail: what the environment refuses.  The function
\* appended to prof.closers at lines 206-208 is never called: Stop runs
\* p.closer and stores to started itself.
Start(options, fail) ==
    /\ exit = "running"
    /\ app.pc = "idle"
    /\ LET prof == ApplyOptions(options, ZeroProfile)
           s    == Len(profs) + 1
           path == resolvePath(prof.path)
           fn   == Join(path, Artifact(prof.mode))
       IN  /\ StartedCAS => Len(profs) < MaxSessions
           /\ fail = "trace" => prof.mode = traceMode
           /\ IF ~StartedCAS
              THEN /\ Fatal("Start() already called")
                   /\ UNCHANGED <<started, profs, closers, watchers, app,
                                  runtimeMemProfileRate, runtimeBlockProfileRate,
                                  cpuProfiling, tracing, dirs, files>>
              ELSE IF fail = "mkdir"
              THEN /\ Fatal("could not create initial output directory")
                   /\ started' = 1
                   /\ UNCHANGED <<profs, closers, watchers, app,
                                  runtimeMemProfileRate, runtimeBlockProfileRate,
                                  cpuProfiling, tracing, dirs, files>>
              ELSE IF fail = "create"
              THEN /\ Fatal("could not create profile")
                   /\ started' = 1
                   /\ dirs' = resolveDirs(prof.path)
                   /\ UNCHANGED <<profs, closers, watchers, app,
                                  runtimeMemProfileRate, runtimeBlockProfileRate,
                                  cpuProfiling, tracing, files>>
              ELSE IF fail = "trace"
              THEN /\ Fatal("could not start trace")
                   /\ started' = 1
                   /\ dirs' = resolveDirs(prof.path)
                   /\ files' = Create(fn)
                   /\ UNCHANGED <<profs, closers, watchers, app,
                                  runtimeMemProfileRate, runtimeBlockProfileRate,
                                  cpuProfiling, tracing>>
              ELSE /\ started' = 1
                   /\ dirs' = resolveDirs(prof.path)
                   /\ files' = Create(fn)
                   /\ cpuProfiling' = IF prof.mode = cpuMode THEN TRUE ELSE cpuProfiling
                   /\ tracing' = IF prof.mode = traceMode THEN TRUE ELSE tracing
                   /\ runtimeMemProfileRate' =
                          IF prof.mode = memMode THEN prof.memProfileRate
                          ELSE runtimeMemProfileRate
                   /\ runtimeBlockProfileRate' =
                          IF prof.mode = blockMode THEN 1 ELSE runtimeBlockProfileRate
                   /\ stderr' = logf(stderr, prof, EnabledMessage(prof.mode), s)
                   /\ profs' = Append(profs, prof)
                   \* old is the closure's variable (line 165); the other
                   \* fields record the call for the properties: the package
                   \* never reads the contention rate (blockBefore).
                   /\ closers' = Append(closers,
                          [fn |-> fn, old |-> runtimeMemProfileRate, runs |-> 0,
                           done |-> 0, options |-> options, fresh |-> path \notin dirs,
                           events |-> <<>>, blockBefore |-> runtimeBlockProfileRate])
                   /\ watchers' = Append(watchers, NewWatcher(prof))
                   /\ app' = [pc |-> "idle", s |-> s, last |-> "Start"]
                   /\ UNCHANGED exit
    /\ UNCHANGED <<hit, resolver>>

\* ------------------------------------------------------------ watcher
\* c := make(chan os.Signal, 1); signal.Notify(c, os.Interrupt) (lines 212-213).
WatcherNotify(s) ==
    /\ exit = "running"
    /\ s \in Sessions
    /\ watchers[s].pc = "spawned"
    /\ watchers' = [watchers EXCEPT ![s].pc = "waiting", ![s].reg = TRUE]
    /\ UNCHANGED <<started, profs, closers, app, runtimeMemProfileRate,
                   runtimeBlockProfileRate, cpuProfiling, tracing, dirs, files,
                   stderr, exit, hit, resolver>>

\* The session started with NoShutdownHook that is active, or 0.
OptedOut ==
    IF \E s \in Sessions : profs[s].noShutdownHook /\ Active(s)
    THEN CHOOSE s \in Sessions : profs[s].noShutdownHook /\ Active(s)
    ELSE 0

\* The sessions started with the hook that are active.
Hooked == {s \in Sessions : ~profs[s].noShutdownHook /\ Active(s)}

\* The process receives an interrupt.  With no channel registered the Go
\* runtime ends the process; otherwise every registered channel gets the
\* signal, unless its buffer of one already holds one.
Interrupt ==
    /\ exit = "running"
    /\ hit' = hit \cup Hooked
    /\ IF \E s \in Sessions : watchers[s].reg
       THEN /\ watchers' = [s \in Sessions |->
                              IF watchers[s].reg /\ ~watchers[s].sig
                              THEN [watchers[s] EXCEPT !.sig = TRUE, !.at = OptedOut]
                              ELSE watchers[s]]
            /\ UNCHANGED exit
       ELSE /\ exit' = "killed"
            /\ UNCHANGED watchers
    /\ UNCHANGED <<started, profs, closers, app, runtimeMemProfileRate,
                   runtimeBlockProfileRate, cpuProfiling, tracing, dirs, files,
                   stderr, resolver>>

\* <-c; log.Println(...); signal.Stop(c); prof.Stop() up to its
\* compare-and-swap (lines 214-220, 100-104).
WatcherFire(s) ==
    /\ exit = "running"
    /\ s \in Sessions
    /\ watchers[s].pc = "waiting"
    /\ watchers[s].sig
    /\ stderr' = logAlways("always", "caught interrupt, stopping profiles", s)
    /\ StopEnter(s, s)

\* Mutant: the watcher ends the process without waiting for its Stop.
WatcherExitEarly(s) ==
    /\ exit = "running"
    /\ s \in Sessions
    /\ watchers[s].pc \in {"closer", "store", "exit"}
    /\ exit' = "exit0"
    /\ watchers' = [watchers EXCEPT ![s].pc = "done"]
    /\ UNCHANGED <<started, profs, closers, app, runtimeMemProfileRate,
                   runtimeBlockProfileRate, cpuProfiling, tracing, dirs, files,
                   stderr, hit, resolver>>

\* os.Exit(0) (line 223).
WatcherExit(s) ==
    /\ exit = "running"
    /\ s \in Sessions
    /\ watchers[s].pc = "exit"
    /\ exit' = "exit0"
    /\ watchers' = [watchers EXCEPT ![s].pc = "done"]
    /\ UNCHANGED <<started, profs, closers, app, runtimeMemProfileRate,
                   runtimeBlockProfileRate, cpuProfiling, tracing, dirs, files,
                   stderr, hit, resolver>>

\* ------------------------------------------------------ specification
IdleResolver == [pending |-> <<>>, applied |-> <<>>, prof |-> ZeroProfile]

InitProcess(rates) ==
    /\ started = 0
    /\ profs = <<>>
    /\ closers = <<>>
    /\ watchers = <<>>
    /\ app = [pc |-> "idle", s |-> 0, last |-> "none"]
    /\ runtimeMemProfileRate \in rates
    /\ runtimeBlockProfileRate = 0
    /\ cpuProfiling = FALSE
    /\ tracing = FALSE
    /\ dirs = {UserDir("out")}
    /\ files = [f \in {} |-> 0]
    /\ stderr = {}
    /\ exit = "running"
    /\ hit = {}
    /\ resolver = IdleResolver

\* The steps of the process: the application starts sessions with the option
\* sequences of inputs and stops them, the watchers run, interrupts arrive;
\* writes: whether a snapshot write may succeed (TRUE), fail (FALSE).
Step(inputs, writes) ==
    \/ \E options \in inputs, fail \in Failures : Start(options, fail)
    \/ \E h \in Sessions : AppStop(h)
    \/ \E t \in Threads, ok \in writes : StopCloser(t, ok)
    \/ \E t \in Threads : StopStore(t)
    \/ \E s \in Sessions : WatcherNotify(s)
    \/ Interrupt
    \/ \E s \in Sessions : WatcherFire(s)
    \/ \E s \in Sessions : WatcherExit(s)

\* The lifecycle specification: every mode, the hook on and off, quiet or
\* not, every kind of path; the runtime's default heap rate.
Init == InitProcess(DefaultRates)

Next == Step(StartInputs, {TRUE})

Spec == Init /\ [][Next]_vars

\* The sampling-rate specification: heap sessions of several rates and other
\* sessions between them, from several initial rates, with snapshot writes
\* that may fail.
InitRates == InitProcess(InitialRates)

NextRates == Step(RateStartInputs, BOOLEAN)

SpecRates == InitRates /\ [][NextRates]_vars

\* The contention-rate specification: Contention sessions and a CPU session
\* between them, from several contention rates set by the program before.
BlockStartInputs ==
    {<<<<"BlockProfile">>>>,
     <<<<"NoShutdownHook">>, <<"BlockProfile">>, <<"ProfilePath", "out">>>>,
     <<<<"NoShutdownHook">>>>,
     <<<<"NoShutdownHook">>, <<"BlockProfile">>, <<"Quiet">>>>}

InitialBlockRates == {0, 1, 7}

InitBlock ==
    /\ started = 0 /\ profs = <<>> /\ closers = <<>> /\ watchers = <<>>
    /\ app = [pc |-> "idle", s |-> 0, last |-> "none"]
    /\ runtimeMemProfileRate \in DefaultRates
    /\ runtimeBlockProfileRate \in InitialBlockRates
    /\ cpuProfiling = FALSE /\ tracing = FALSE
    /\ dirs = {UserDir("out")} /\ files = [f \in {} |-> 0]
    /\ stderr = {} /\ exit = "running" /\ hit = {}
    /\ resolver = IdleResolver

NextBlock == Step(BlockStartInputs, {TRUE})

SpecBlock == InitBlock /\ [][NextBlock]_vars

\* The diagnostics specification: every Start is tried with the quiet option
\* and without it, in a mode that has every fatal path.
QuietStartInputs ==
    {<<<<"TraceProfile">>>>,
     <<<<"Quiet">>, <<"TraceProfile">>>>,
     <<<<"NoShutdownHook">>, <<"MemProfile">>, <<"ProfilePath", "out">>>>,
     <<<<"Quiet">>, <<"NoShutdownHook">>, <<"MemProfile">>, <<"ProfilePath", "out">>>>}

InitQuiet == InitProcess(DefaultRates)

NextQuiet == Step(QuietStartInputs, {TRUE})

SpecQuiet == InitQuiet /\ [][NextQuiet]_vars

\* The option loop of Start on its own (lines 122-125), one option a step,
\* for every option sequence up to MaxOptions.
InitResolve ==
    /\ started = 0 /\ profs = <<>> /\ closers = <<>> /\ watchers = <<>>
    /\ app = [pc |-> "idle", s |-> 0, last |-> "none"]
    /\ runtimeMemProfileRate \in DefaultRates /\ runtimeBlockProfileRate = 0
    /\ cpuProfiling = FALSE /\ tracing = FALSE
    /\ dirs = {UserDir("out")} /\ files = [f \in {} |-> 0]
    /\ stderr = {} /\ exit = "running" /\ hit = {}
    /\ resolver \in {[pending |-> q, applied |-> <<>>, prof |-> ZeroProfile] :
                         q \in SeqsUpTo(Options, MaxOptions)}

ResolveStep ==
    /\ resolver.pending # <<>>
    /\ resolver' = [pending |-> Tail(resolver.pending),
                    applied |-> Append(resolver.applied, Head(resolver.pending)),
                    prof    |-> ApplyOption(Head(resolver.pending), resolver.prof)]
    /\ UNCHANGED <<started, profs, closers, watchers, app, runtimeMemProfileRate,
                   runtimeBlockProfileRate, cpuProfiling, tracing, dirs, files,
                   stderr, exit, hit>>

\* Start with the options of the loop, once the loop has applied them all
\* (lines 127-227).
ResolveStart ==
    /\ resolver.pending = <<>>
    /\ Len(profs) = 0
    /\ Start(resolver.applied, "none")

ResolveNext == ResolveStep \/ ResolveStart

SpecResolve == InitResolve /\ [][ResolveNext]_vars

\* =============================================================== claims
\* What a failed Start must leave alone: everything but the log and the exit.
ProcessState ==
    <<started, profs, closers, watchers, app, runtimeMemProfileRate,
      runtimeBlockProfileRate, cpuProfiling, tracing, dirs, files>>

\* What a teardown touches, and the running flag.
TeardownState ==
    <<started, profs, closers, runtimeMemProfileRate, runtimeBlockProfileRate,
      cpuProfiling, tracing, dirs, files>>

\* Thread t has called Stop on session s and its compare-and-swap is behind it.
InvokedStop(t, s) ==
    IF t = 0
    THEN app.s = s /\ (app.pc \in {"closer", "store"} \/ app.last \in {"Stop", "Noop"})
    ELSE t = s /\ watchers[s].pc \in {"closer", "store", "exit", "done"}

\* Thread t is inside the teardown of session s.
InTeardown(t, s) == ThreadSession(t) = s /\ ThreadPc(t) \in {"closer", "store"}

\* C1: in every reachable state at most one session is active (capability
\* activated, teardown not completed), and an active session holds the
\* running flag.
C1_AtMostOneActive ==
    /\ \A s1, s2 \in Sessions : Active(s1) /\ Active(s2) => s1 = s2
    /\ \A s \in Sessions : Active(s) => started = 1

\* A second session is active after the first one was torn down, while the
\* watcher of the first one still waits with an interrupt in its channel.
C1_Witness ==
    /\ Len(profs) = 2
    /\ Active(2) /\ ~Active(1)
    /\ watchers[1].pc = "waiting" /\ watchers[1].sig

\* C2: the closer of a session is entered at most once, at most one thread is
\* ever inside a session's teardown, and when both the application and the
\* watcher have called Stop on a session exactly one of them entered it.
C2_TeardownOnce ==
    \A s \in Sessions :
        /\ closers[s].runs <= 1
        /\ closers[s].done <= closers[s].runs
        /\ Cardinality({t \in Threads : InTeardown(t, s)}) <= 1
        /\ InvokedStop(0, s) /\ InvokedStop(s, s) => closers[s].runs = 1
        /\ watchers[s].won /\ app.s = s =>
               app.pc \notin {"closer", "store"} /\ app.last # "Stop"

\* The application and the watcher are both in Stop on the same session:
\* the watcher runs the closer, the application's call was a no-op.
C2_Witness ==
    \E s \in Sessions :
        /\ app = [pc |-> "idle", s |-> s, last |-> "Noop"]
        /\ watchers[s].pc = "closer"

\* C3: when the process exits through a watcher, no session that was active
\* with the hook when an interrupt arrived is left with its teardown
\* unfinished.
C3_ExitAfterTeardown == exit = "exit0" => hit = {}

\* C4 (as claimed): whenever a call of Stop has returned to the application,
\* as the call that ran the teardown or as a call that found the session
\* stopped, the running flag is clear.
C4_AnyStopReturnClearsFlag ==
    exit = "running" /\ app.pc = "idle" /\ app.last \in {"Stop", "Noop"} => started = 0

\* C4 (amended): when the Stop call that ran the teardown has returned, the
\* running flag is clear until the next Start; a Start issued then is not
\* rejected, and every session Start yields is fresh: its stopped flag is
\* unset and its closer has not run.
C4_WinnerStopClearsFlag ==
    /\ [](exit = "running" =>
            /\ app.pc = "idle" /\ app.last = "Stop" => started = 0
            /\ \A s \in Sessions :
                 watchers[s].pc = "exit" /\ watchers[s].won /\ s = Len(profs)
                     => started = 0)
    /\ [][\A o \in StartInputs :
            app.last = "Stop" /\ Start(o, "none") =>
                /\ exit' = "running"
                /\ Len(profs') = Len(profs) + 1
                /\ profs'[Len(profs')].stopped = 0
                /\ closers'[Len(profs')].runs = 0
                /\ started' = 1]_vars

\* The application's Stop ran the teardown of the second session and returned.
C4_Witness ==
    /\ Len(profs) = 2
    /\ app = [pc |-> "idle", s |-> 2, last |-> "Stop"]
    /\ started = 0
    /\ exit = "running"

\* C5: a Start issued while the running flag is set ends the process and
\* changes nothing else: no option applied, no directory or file created, no
\* capability activated, no rate changed, no watcher registered, the active
\* session untouched.
C5_SecondStartIsFatal ==
    [][\A o \in StartInputs, f \in Failures :
         started = 1 /\ Start(o, f) =>
             /\ exit' = "fatal"
             /\ <<"fatal", "Start() already called", Len(profs) + 1>> \in stderr'
             /\ UNCHANGED ProcessState]_vars

\* A second Start has ended the process while the first session was active.
C5_Witness ==
    /\ exit = "fatal"
    /\ <<"fatal", "Start() already called", 2>> \in stderr
    /\ Active(1)
    /\ profs[1].stopped = 0

\* C6: a Stop on a handle whose session is already stopped returns at once
\* and changes nothing: no file, no capability, no rate, no session and not
\* the running flag, whether or not a later session is active.
C6_StaleStopIsNoop ==
    [][\A h \in Sessions :
         profs[h].stopped = 1 /\ AppStop(h) =>
             /\ app' = [pc |-> "idle", s |-> h, last |-> "Noop"]
             /\ UNCHANGED TeardownState
             /\ UNCHANGED <<watchers, stderr, exit>>]_vars

\* A Stop on the handle of the first session has returned while the second
\* session is active and holds the running flag.
C6_Witness ==
    /\ Len(profs) = 2
    /\ app = [pc |-> "idle", s |-> 1, last |-> "Noop"]
    /\ Active(2) /\ profs[2].stopped = 0
    /\ started = 1

\* The options that set the mode, and the mode each sets.
IsModeOption(o) ==
    o[1] \in {"CPUProfile", "MemProfile", "MemProfileRate", "BlockProfile", "TraceProfile"}

ModeSetBy(o) ==
    CASE o[1] = "CPUProfile" -> cpuMode
      [] o[1] \in {"MemProfile", "MemProfileRate"} -> memMode
      [] o[1] = "BlockProfile" -> blockMode
      [] o[1] = "TraceProfile" -> traceMode

\* The mode of the last mode-setting option of a sequence; CPU without one.
LastMode(options) ==
    LET at == {i \in 1..Len(options) : IsModeOption(options[i])}
    IN  IF at = {} THEN cpuMode
        ELSE ModeSetBy(options[CHOOSE i \in at : \A j \in at : j <= i])

\* C7: after any sequence of options the descriptor holds exactly one mode,
\* the one of the last mode-setting option applied (CPU when there is none);
\* an option that sets no mode leaves the mode as it was.
C7_LastModeWins ==
    /\ resolver.prof.mode \in Modes
    /\ resolver.prof.mode = LastMode(resolver.applied)

\* Two mode options and then an option that sets no mode have been applied.
C7_Witness ==
    /\ resolver.pending = <<>>
    /\ resolver.applied = <<<<"MemProfile">>, <<"BlockProfile">>, <<"Quiet">>>>
    /\ resolver.prof.mode = blockMode

C9_PathResolution ==
    /\ [](\A s \in Sessions :
            LET dir == closers[s].fn[1]
            IN  /\ dir \in dirs
                /\ closers[s].fn \in DOMAIN files
                /\ closers[s].fn[2] = Artifact(profs[s].mode)
                /\ profs[s].path = "" => dir[1] = "profile" /\ dir[2] >= 1 /\ closers[s].fresh
                /\ profs[s].path # "" => dir = <<profs[s].path, 0>>)
    /\ [][Len(profs') > Len(profs) =>
            LET p == profs'[Len(profs')]
            IN  IF p.path = ""
                THEN \E n \in 1..(Cardinality(dirs) + 1) :
                        <<"profile", n>> \notin dirs /\ dirs' = dirs \cup {<<"profile", n>>}
                ELSE dirs' \ dirs \subseteq MkdirAll(p.path)]_vars

\* One session went to a temporary directory, the next one to out/sub, which
\* did not exist.
C9_Witness ==
    /\ Len(profs) = 2
    /\ profs[1].path = "" /\ profs[2].path = "out/sub"
    /\ closers[2].fresh
    /\ closers[2].fn[1] = <<"out/sub", 0>>

\* C10: while a Heap session is active the global heap rate is its rate; when
\* its teardown has completed the rate is the one found at its Start; when no
\* session is active the rate is the one before the first Start.
C10_HeapRateRestored ==
    /\ \A s \in Sessions :
         profs[s].mode = memMode =>
             /\ Active(s) => runtimeMemProfileRate = profs[s].memProfileRate
             /\ ~Active(s) /\ s = Len(profs) => runtimeMemProfileRate = closers[s].old
    /\ Sessions # {} /\ (\A s \in Sessions : ~Active(s)) =>
           runtimeMemProfileRate = closers[1].old

\* Two Heap sessions have been started and stopped; the rate is the initial
\* one again, not the sessions' rate.
C10_Witness ==
    /\ Len(profs) = 2
    /\ \A s \in Sessions : profs[s].mode = memMode /\ ~Active(s)
    /\ runtimeMemProfileRate = closers[1].old
    /\ runtimeMemProfileRate # profs[2].memProfileRate
    /\ app.last = "Stop"

\* The artifact os.Create leaves: it exists, is empty and is open.
FreshFile == [open |-> TRUE, data |-> "empty", late |-> FALSE]

\* C11: every session has one artifact, in its resolved directory, named
\* cpu.pprof, mem.pprof, block.pprof or trace.out by its mode; a successful
\* Start creates that file, empty, and touches no other file; no step, of Stop
\* or of anything else, removes a file.
C11_OneArtifactKept ==
    /\ [](\A s \in Sessions :
            LET fn == closers[s].fn
            IN  /\ fn \in DOMAIN files
                /\ fn[1] \in dirs
                /\ profs[s].mode = cpuMode   => fn[2] = "cpu.pprof"
                /\ profs[s].mode = memMode   => fn[2] = "mem.pprof"
                /\ profs[s].mode = blockMode => fn[2] = "block.pprof"
                /\ profs[s].mode = traceMode => fn[2] = "trace.out")
    /\ [][/\ DOMAIN files \subseteq DOMAIN files'
          /\ Len(profs') > Len(profs) =>
                LET fn == closers'[Len(profs')].fn
                IN  /\ files'[fn] = FreshFile
                    /\ DOMAIN files' = DOMAIN files \cup {fn}
                    /\ \A f \in DOMAIN files : f # fn => files'[f] = files[f]]_vars

\* Two Contention sessions wrote to the same path one after the other; the
\* second one's Stop has returned and block.pprof is there, written.
C11_Witness ==
    /\ Len(profs) = 2
    /\ closers[1].fn = closers[2].fn
    /\ closers[2].fn = <<<<"out", 0>>, "block.pprof">>
    /\ app = [pc |-> "idle", s |-> 2, last |-> "Stop"]
    /\ closers[2].fn \in DOMAIN files
    /\ files[closers[2].fn].data = "written"

\* The messages a session logs when nothing fails.
RoutineMessages(s) ==
    {EnabledMessage(profs[s].mode), DisabledMessage(profs[s].mode),
     "caught interrupt, stopping profiles"}

\* C12: when the snapshot write of a session's teardown has failed, the log
\* holds a report of the failure for that session (a message other than the
\* routine ones), the Stop that ran the teardown returns and the running flag
\* is clear afterwards.
C12_WriteFailureReported ==
    \A s \in Sessions :
        LET fn == closers[s].fn
        IN  /\ closers[s].done = 1
            /\ files[fn].data = "failed"
            /\ \A s2 \in Sessions : s2 > s => closers[s2].fn # fn
            => /\ \E m \in stderr : m[3] = s /\ m[2] \notin RoutineMessages(s)
               /\ app = [pc |-> "idle", s |-> s, last |-> "Stop"] => started = 0

\* C13: a Start that holds the running flag and is refused the output
\* directory or the artifact file ends the process with a diagnostic, whatever
\* the quiet option: it adds no session (no handle), activates no capability,
\* changes no global rate, creates no artifact and spawns no watcher.
C13_FailedStartIsFatal ==
    [][\A o \in StartInputs, f \in {"mkdir", "create"} :
         started = 0 /\ Start(o, f) =>
             /\ exit' = "fatal"
             /\ \E m \in stderr' \ stderr :
                    /\ m[1] = "fatal"
                    /\ m[2] = IF f = "mkdir" THEN "could not create initial output directory"
                              ELSE "could not create profile"
             /\ UNCHANGED <<profs, closers, watchers, app, runtimeMemProfileRate,
                            runtimeBlockProfileRate, cpuProfiling, tracing, files>>]_vars

\* After a first session was stopped, a second Start could not open its
\* artifact: the process has ended, with one session only.
C13_Witness ==
    /\ exit = "fatal"
    /\ <<"fatal", "could not create profile", 2>> \in stderr
    /\ Len(profs) = 1
    /\ ~Active(1)
    /\ app.last = "Stop"

\* C14: a session started with the quiet option never has a message in the
\* log other than a fatal diagnostic: none from Start, none from Stop, none
\* from the interrupt-triggered shutdown.
C14_QuietIsSilent ==
    \A s \in Sessions :
        profs[s].quiet => \A m \in stderr : m[3] = s => m[1] = "fatal"

\* C15: a session has a watcher if and only if it was started without
\* NoShutdownHook; while a session started with NoShutdownHook is active and
\* its caller has not called Stop, no watcher of the package has called Stop
\* or ended the process on an interrupt delivered during that session.
C15_OptOutIgnoresInterrupt ==
    \A s \in Sessions :
        /\ watchers[s].pc = "none" <=> profs[s].noShutdownHook
        /\ profs[s].noShutdownHook /\ Active(s) /\ profs[s].stopped = 0 =>
               \A w \in Sessions :
                   watchers[w].at = s => watchers[w].pc \notin {"closer", "store", "exit", "done"}

\* How far a watcher goroutine has come: not spawned, spawned, subscribed and
\* waiting, inside Stop (closer, store), back from Stop, gone.
WatcherRank(pc) ==
    CASE pc = "none"    -> 0
      [] pc = "spawned" -> 1
      [] pc = "waiting" -> 2
      [] pc = "closer"  -> 3
      [] pc = "store"   -> 4
      [] pc = "exit"    -> 5
      [] pc = "done"    -> 6

\* A watcher has fired: it has taken a signal from its channel.
Fired(w) == WatcherRank(watchers[w].pc) >= 3

\* C16: a watcher that has fired is unsubscribed and its channel is empty, in
\* Stop and ever after; it calls Stop in the step in which it fires, on its
\* own session, and never again: it only moves forward, from waiting into Stop
\* and from Stop to the exit, and an interrupt delivered after it has fired
\* leaves it where it is.
C16_WatcherFiresOnce ==
    /\ [](\A w \in Sessions :
            /\ Fired(w) => ~watchers[w].reg /\ ~watchers[w].sig
            /\ watchers[w].pc \in {"closer", "store"} => ThreadSession(w) = w
            /\ Fired(w) /\ watchers[w].won => profs[w].stopped = 1)
    /\ [][\A w \in Sessions :
            /\ WatcherRank(watchers'[w].pc) >= WatcherRank(watchers[w].pc)
            /\ WatcherRank(watchers[w].pc) < 3 /\ WatcherRank(watchers'[w].pc) >= 3 =>
                   /\ watchers[w].pc = "waiting" /\ watchers[w].sig
                   /\ profs'[w].stopped = 1
            /\ Fired(w) =>
                   /\ WatcherRank(watchers'[w].pc) <= WatcherRank(watchers[w].pc) + 1
                   /\ profs'[w].stopped = profs[w].stopped
                   /\ closers'[w].runs = closers[w].runs]_vars

\* An interrupt was delivered after the watcher had fired and unsubscribed,
\* while it was inside Stop: no channel took it and the runtime ended the
\* process.
C16_Witness ==
    \E w \in Sessions :
        /\ watchers[w].pc \in {"closer", "store"}
        /\ ~watchers[w].reg
        /\ closers[w].runs = 1
        /\ exit = "killed"

\* C17 (as claimed): the package ends the process only through a watcher's
\* os.Exit(0): the process is never ended by another operation of the package.
C17_OnlyInterruptExits == exit \in {"running", "killed", "exit0"}

\* C17 (amended): the package ends the process with success status only in a
\* watcher that has fired and whose Stop call has returned; the one other way
\* it ends the process is a fatal diagnostic of Start; Stop never ends it.  A
\* process ended otherwise was ended by the runtime, on an interrupt no
\* channel was subscribed to.
C17_ExitOnlyAfterWatcherStop ==
    /\ [](exit = "exit0" => \E w \in Sessions : watchers[w].pc = "done")
    /\ [][exit' # exit =>
            /\ exit = "running"
            /\ exit' = "exit0" =>
                   \E w \in Sessions :
                       /\ watchers[w].pc = "exit" /\ watchers'[w].pc = "done"
                       /\ profs[w].stopped = 1
            /\ exit' = "fatal" =>
                   /\ app.pc = "idle" /\ app' = app
                   /\ \E m \in stderr' \ stderr : m[1] = "fatal"
                   /\ UNCHANGED <<profs, closers, watchers>>
            /\ exit' = "killed" =>
                   /\ \A w \in Sessions : ~watchers[w].reg
                   /\ UNCHANGED <<ProcessState, stderr>>
            /\ exit' \in {"exit0", "fatal", "killed"}]_vars

\* A watcher fired on an interrupt, ran the teardown of its session, and after
\* its Stop had returned ended the process with os.Exit(0).
C17_Witness ==
    /\ exit = "exit0"
    /\ \E w \in Sessions :
           /\ watchers[w].pc = "done" /\ watchers[w].won
           /\ closers[w].done = 1
           /\ started = 0

\* C18: while a closer runs the running flag is set; when a session has been
\* started, the teardown of the session before it has finished: that session's
\* artifact is closed (unless a later session has created the same file anew)
\* and, after a Heap session, the rate the new session found is the restored
\* one.
C18_TeardownBeforeRelease ==
    /\ \A t \in Threads : ThreadPc(t) = "closer" => started = 1
    /\ \A s \in Sessions :
         s > 1 =>
             LET q == s - 1
             IN  /\ closers[q].done = 1
                 /\ (\A x \in Sessions : x > q => closers[x].fn # closers[q].fn)
                        => ~files[closers[q].fn].open
                 /\ profs[q].mode = memMode => closers[s].old = closers[q].old

\* Created and active (0), stopped with its teardown running (1), stopped (2).
SessionPhase(p, c) == IF p.stopped = 0 THEN 0 ELSE IF c.done = 0 THEN 1 ELSE 2

\* C19: a session only moves forward, one phase a step, from active to
\* stopped; its stopped flag, once set, stays set; its teardown completes at
\* most once and a session whose teardown has completed is never active again;
\* nothing of a session but its stopped flag changes after Start has returned,
\* and the flag is set only by a thread entering Stop on that session; a Start
\* adds a new session and leaves the others as they are.
C19_SessionLifecycle ==
    /\ [](\A s \in Sessions :
            /\ profs[s].stopped \in {0, 1}
            /\ closers[s].done \in {0, 1}
            /\ closers[s].done = 1 => profs[s].stopped = 1)
    /\ [][/\ Len(profs') >= Len(profs)
          /\ Len(profs') > Len(profs) =>
                /\ Len(profs') = Len(profs) + 1
                /\ profs'[Len(profs')].stopped = 0
                /\ closers'[Len(profs')].done = 0
                /\ \A s \in Sessions : profs'[s] = profs[s] /\ closers'[s] = closers[s]
          /\ \A s \in Sessions :
                LET before == SessionPhase(profs[s], closers[s])
                    after  == SessionPhase(profs'[s], closers'[s])
                IN  /\ after \in {before, before + 1}
                    /\ profs'[s] = [profs[s] EXCEPT !.stopped = profs'[s].stopped]
                    /\ before = 0 /\ after = 1 =>
                           \E t \in Threads :
                               /\ ThreadPc(t) \in {"idle", "waiting"}
                               /\ IF t = 0 THEN app'.pc = "closer" /\ app'.s = s
                                  ELSE t = s /\ watchers'[s].pc = "closer"
                    /\ ~Active(s) => closers'[s].done = closers[s].done]_vars

\* The first session was stopped by the application, its watcher's Stop found
\* it stopped; it stays stopped while a second session is active.
C19_Witness ==
    /\ Len(profs) = 2
    /\ profs[1].stopped = 1 /\ closers[1].done = 1
    /\ watchers[1].pc = "exit" /\ ~watchers[1].won
    /\ Active(2) /\ profs[2].stopped = 0
    /\ exit = "running"

\* C20: an interrupt delivered while a session started with the hook is
\* active leads to that session's teardown and to os.Exit(0); so the runtime
\* never ends the process on an interrupt, before any watcher has fired,
\* leaving such a session interrupted and not torn down.
C20_InterruptReachesWatcher ==
    exit = "killed" /\ (\A w \in Sessions : ~Fired(w)) => hit = {}

\* A watcher is live: its channel is subscribed to interrupts.
Live(w) == watchers[w].reg

\* C21: at most one watcher is live, and a live watcher belongs to a session
\* that is active: once a session has been torn down its watcher no longer
\* takes interrupts.
C21_OneLiveWatcher ==
    /\ Cardinality({w \in Sessions : Live(w)}) <= 1
    /\ \A w \in Sessions : Live(w) => Active(w)

\* The place of statement x among the statements a closer executed (0: not
\* executed).
Position(events, x) ==
    IF \E i \in 1..Len(events) : events[i] = x
    THEN CHOOSE i \in 1..Len(events) : events[i] = x
    ELSE 0

\* Statement x was executed, and before statement y.
Before(events, x, y) ==
    /\ Position(events, x) > 0
    /\ Position(events, x) < Position(events, y)

\* C22: a teardown that has completed executed its statements in the order
\* of its mode: CPU stops sampling, then closes the artifact; Heap writes the
\* snapshot, then closes the artifact, then restores the rate; Contention
\* writes the profile, then closes the artifact, then resets the rate.  No
\* write ever reaches a closed artifact, and the artifact of such a session
\* is written and closed (until a later session creates the same file anew).
C22_TeardownOrder ==
    /\ \A f \in DOMAIN files : ~files[f].late
    /\ \A s \in Sessions :
         LET e == closers[s].events
         IN  /\ closers[s].done = 0 => e = <<>>
             /\ closers[s].done = 1 =>
                  /\ profs[s].mode = cpuMode => Before(e, "StopCPUProfile", "Close")
                  /\ profs[s].mode = memMode =>
                         /\ Before(e, "WriteTo", "Close")
                         /\ Before(e, "Close", "MemProfileRate = old")
                  /\ profs[s].mode = blockMode =>
                         /\ Before(e, "WriteTo", "Close")
                         /\ Before(e, "Close", "SetBlockProfileRate(0)")
                  /\ /\ profs[s].mode # traceMode
                     /\ \A x \in Sessions : x > s => closers[x].fn # closers[s].fn
                     => files[closers[s].fn] = [open |-> FALSE, data |-> "written", late |-> FALSE]

\* A Heap session and a Contention session have both been torn down.
C22_Witness ==
    /\ Len(profs) = 2
    /\ {profs[1].mode, profs[2].mode} = {memMode, blockMode}
    /\ closers[1].done = 1 /\ closers[2].done = 1
    /\ exit = "running"

\* C23: while a Contention session is active the global contention rate is 1;
\* once its teardown has completed, and until another Contention session is
\* started, the rate is 0, whatever it was before the session's Start.
C23_BlockRateReset ==
    \A s \in Sessions :
        profs[s].mode = blockMode =>
            /\ Active(s) => runtimeBlockProfileRate = 1
            /\ ~Active(s) /\ (\A x \in Sessions : x > s => profs[x].mode # blockMode)
                   => runtimeBlockProfileRate = 0

\* The program had set the contention rate to 7; a Contention session was
\* started and stopped, and the rate is 0, not 7.
C23_Witness ==
    \E s \in Sessions :
        /\ profs[s].mode = blockMode
        /\ closers[s].blockBefore = 7
        /\ app = [pc |-> "idle", s |-> s, last |-> "Stop"]
        /\ runtimeBlockProfileRate = 0

\* The same options with the quiet option added in front, or taken away.
ToggleQuiet(options) ==
    IF options # <<>> /\ Head(options) = <<"Quiet">> THEN Tail(options)
    ELSE <<<<"Quiet">>>> \o options

\* The diagnostic of each fatal path of Start.
Diagnostic(running, fail) ==
    IF running THEN "Start() already called"
    ELSE CASE fail = "mkdir"  -> "could not create initial output directory"
           [] fail = "create" -> "could not create profile"
           [] fail = "trace"  -> "could not start trace"

\* C24: every Start that meets a fatal path (a session is running, or the
\* directory, the artifact or the trace is refused) ends the process and
\* writes the diagnostic of that path to the log; the step is the same with
\* the quiet option as without it.
C24_FatalWhateverQuiet ==
    [][\A o \in QuietStartInputs, f \in Failures :
         (started = 1 \/ f # "none") /\ Start(o, f) =>
             /\ exit' = "fatal"
             /\ <<"fatal", Diagnostic(started = 1, f), Len(profs) + 1>> \in stderr' \ stderr
             /\ Start(ToggleQuiet(o), f)]_vars

\* After a quiet Trace session, which logged nothing, a Start could not start
\* its trace: the log holds the diagnostic and nothing else.
C24_Witness ==
    /\ exit = "fatal"
    /\ Len(profs) = 1
    /\ profs[1].quiet /\ profs[1].mode = traceMode
    /\ stderr = {<<"fatal", "could not start trace", 2>>}

\* The options that select Heap, and the rate each gives.
IsHeapOption(o) == o[1] \in {"MemProfile", "MemProfileRate"}

HeapRateOf(o) == IF o[1] = "MemProfile" THEN DefaultMemProfileRate ELSE o[2]

\* The rate of the last heap-selecting option of a sequence (0 without one).
LastHeapRate(options) ==
    LET at == {i \in 1..Len(options) : IsHeapOption(options[i])}
    IN  IF at = {} THEN 0
        ELSE HeapRateOf(options[CHOOSE i \in at : \A j \in at : j <= i])

\* C25 (as claimed): when the mode of the descriptor is Heap its rate is
\* positive and is the rate of the last heap-selecting option applied, and a
\* session started with the options has installed it as the global rate.
C25_HeapRatePositive ==
    resolver.prof.mode = memMode =>
        /\ resolver.prof.memProfileRate > 0
        /\ resolver.prof.memProfileRate = LastHeapRate(resolver.applied)
        /\ \A s \in Sessions : runtimeMemProfileRate = resolver.prof.memProfileRate

\* C25 (amended): when the mode of the descriptor is Heap its rate is the rate
\* of the last heap-selecting option applied, 4096 for MemProfile and r for
\* MemProfileRate(r), positive or not as r is; a session started with the
\* options has that rate in its descriptor and has installed it as the global
\* rate, and a session of another mode has left the global rate alone.
C25_HeapRateIsLastGiven ==
    /\ resolver.prof.mode = memMode =>
           resolver.prof.memProfileRate = LastHeapRate(resolver.applied)
    /\ \A s \in Sessions :
           /\ closers[s].options = resolver.applied
           /\ profs[s].mode = resolver.prof.mode
           /\ profs[s].mode = memMode =>
                  /\ profs[s].memProfileRate = LastHeapRate(resolver.applied)
                  /\ runtimeMemProfileRate = LastHeapRate(resolver.applied)
                  /\ closers[s].old \in DefaultRates
           /\ profs[s].mode # memMode => runtimeMemProfileRate \in DefaultRates

\* MemProfileRate(2), then MemProfile, then Quiet: the session started with
\* them has installed 4096.
C25_Witness ==
    /\ resolver.applied = <<<<"MemProfileRate", 2>>, <<"MemProfile">>, <<"Quiet">>>>
    /\ Len(profs) = 1
    /\ profs[1].memProfileRate = 4096
    /\ runtimeMemProfileRate = 4096

====
